---- MODULE Spec2Model ----
(***************************************************************************)
(* The cooperative portal of src/coop.py: a Streamlit script run once per  *)
(* user interaction of each browser session, against four Supabase tables  *)
(* (members, savings_transactions, loan_applications, loan_transactions)   *)
(* and the Supabase auth service.  Every store call (.execute()) is one    *)
(* atomic step; the Python between two store calls is local to the session *)
(* and is folded into the step of the call that precedes it.  A script run *)
(* can end between any two store calls (the call raises, or the run is     *)
(* interrupted), which is the action Abort.                                *)
(***************************************************************************)
EXTENDS Integers, Sequences, FiniteSets, Bags

\* ---------------------------------------------------------------- bounds
\* the largest amount a form submits
MaxAmount == 1
\* the number of runs that go on to write to the store
MaxRuns == 3

\* --------------------------------------------------------------- universe
MemberEmail == "member@coop"
AdminEmail == "admin@coop"
Emails == {MemberEmail, AdminEmail}
Sessions == {"s1", "s2"}
None == "None"
NoRow == [role |-> "none", savings_balance |-> 0, loan_balance |-> 0]
NoLocal == [member |-> None, balance |-> 0, amount |-> 0, app |-> 0]
\* the values a number_input(min_value=0.0) can submit
Amounts == 0..MaxAmount
\* the values the loan form submits: none, and the largest
LoanAmounts == {0, MaxAmount}

\* members, savings_transactions, loan_applications, loan_transactions: the
\* tables; auth_users: the emails the auth service knows; user_email, page:
\* st.session_state of each session; pc, local: where a session's run is and
\* the Python locals it holds (the member or application it read, the
\* amount); runs: how many runs went on to write to the store.
VARIABLES members, auth_users, savings_transactions, loan_applications,
          loan_transactions, user_email, page, pc, local, runs

vars == <<members, auth_users, savings_transactions, loan_applications,
          loan_transactions, user_email, page, pc, local, runs>>

store == <<members, auth_users, savings_transactions, loan_applications,
           loan_transactions>>
session == <<user_email, page>>

\* ---------------------------------------------------------------- helpers
get_member_by_email(email) ==
    IF email \in Emails THEN members[email] ELSE NoRow

\* the lookup without the role test
is_admin_any_row(email) == get_member_by_email(email) # NoRow

is_admin(email) ==
    LET m == get_member_by_email(email) IN m # NoRow /\ m.role = "admin"

\* the page the sidebar leaves in st.session_state.page when the radio keeps
\* its default selection
SidebarPage(s) ==
    IF user_email[s] # None
    THEN IF is_admin(user_email[s])
         THEN (IF page[s] = "Admin" THEN "Admin" ELSE "Member")
         ELSE "Member"
    ELSE (IF page[s] = "Login" THEN "Login" ELSE "Register")

SidebarChoices(s) ==
    IF user_email[s] # None
    THEN IF is_admin(user_email[s]) THEN {"Admin", "Member"} ELSE {"Member"}
    ELSE {"Login", "Register"}

\* the page function the router runs
Router(s) ==
    IF user_email[s] # None
    THEN (IF SidebarPage(s) = "Admin" THEN "page_admin_dashboard"
                                      ELSE "page_member_dashboard")
    ELSE (IF SidebarPage(s) = "Register" THEN "page_register" ELSE "page_login")

\* a run that goes on to write to the store is counted, up to MaxRuns
Begin(writes) ==
    /\ writes => runs < MaxRuns
    /\ runs' = IF writes THEN runs + 1 ELSE runs

\* table(...).insert(row).execute() on a log table: one more row.  The two log
\* tables are read only as whole sets of rows, so each is a bag of rows
\* (created_at and the row id are left out of a row).
insert(table, row) == table (+) SetToBag({row})

\* lines 157, 194
ValidAmount(amount) == amount > 0

\* the check left out
InsufficientFundsNever(amount, balance) == FALSE

\* line 172
InsufficientFunds(amount, balance) == amount > balance

\* the balance overwritten with the amount
DepositBalanceOverwrite(balance, amount) == amount

\* line 161
DepositBalance(balance, amount) == balance + amount

\* the deposit's sum used for a withdrawal
WithdrawBalanceAdds(balance, amount) == balance + amount

\* line 175
WithdrawBalance(balance, amount) == balance - amount

\* line 286
ApprovedLoanBalance(balance, amount) == balance + amount

\* ------------------------------------------------------------------- Init
\* The members table holds the admin's row, and the auth service the admin's
\* user: the portal has no operation that creates an admin, so a deployment
\* provisions both.  Every other account is created by signup.
Init ==
    /\ members = [e \in Emails |->
                    IF e = AdminEmail
                    THEN [role |-> "admin", savings_balance |-> 0, loan_balance |-> 0]
                    ELSE NoRow]
    /\ auth_users = {AdminEmail}
    /\ savings_transactions = EmptyBag
    /\ loan_applications = << >>
    /\ loan_transactions = EmptyBag
    /\ user_email = [s \in Sessions |-> None]
    /\ page = [s \in Sessions |-> "Login"]
    /\ pc = [s \in Sessions |-> "idle"]
    /\ local = [s \in Sessions |-> NoLocal]
    /\ runs = 0

\* ------------------------------------------------- authentication pages
\* signup (lines 81-95): auth.sign_up raises for an email that is registered
\* (the except clause reports it); otherwise the profile row is inserted with
\* zero balances and role member, or that insert raises and no row exists.
signup(s, email, insert_ok) ==
    /\ pc[s] = "idle"
    /\ Router(s) = "page_register"
    /\ email \notin auth_users
    /\ auth_users' = auth_users \cup {email}
    /\ members' = IF insert_ok /\ members[email] = NoRow
                  THEN [members EXCEPT ![email] =
                          [role |-> "member", savings_balance |-> 0, loan_balance |-> 0]]
                  ELSE members
    /\ page' = [page EXCEPT ![s] = IF insert_ok THEN "Login" ELSE SidebarPage(s)]
    /\ UNCHANGED <<savings_transactions, loan_applications, loan_transactions,
                   user_email, pc, local, runs>>

\* login (lines 60-70)
login(s, email) ==
    /\ pc[s] = "idle"
    /\ Router(s) = "page_login"
    /\ email \in auth_users
    /\ user_email' = [user_email EXCEPT ![s] = email]
    /\ page' = [page EXCEPT ![s] = IF ~is_admin(email) THEN "Member" ELSE "Admin"]
    /\ UNCHANGED <<store, pc, local, runs>>

\* logout (lines 72-79, 371-373)
logout(s) ==
    /\ pc[s] = "idle"
    /\ user_email[s] # None
    /\ user_email' = [user_email EXCEPT ![s] = None]
    /\ page' = [page EXCEPT ![s] = "Login"]
    /\ UNCHANGED <<store, pc, local, runs>>

\* the sidebar radio (lines 362-382)
Navigate(s, choice) ==
    /\ pc[s] = "idle"
    /\ choice \in SidebarChoices(s)
    /\ choice # page[s]
    /\ page' = [page EXCEPT ![s] = choice]
    /\ UNCHANGED <<store, user_email, pc, local, runs>>

\* ------------------------------------------------------ member dashboard
\* get_member_required (lines 97-105): the run stops without a member row
MemberPage(s) ==
    /\ pc[s] = "idle"
    /\ Router(s) = "page_member_dashboard"
    /\ get_member_by_email(user_email[s]) # NoRow

\* savings_form submitted (lines 138, 156-175): the member row is read, the
\* amount is validated against that read, and the run goes on to the balance
\* update or reports the error and ends.
SubmitSavings(s, action, amount) ==
    /\ MemberPage(s)
    /\ LET member == get_member_by_email(user_email[s])
           goes == /\ ValidAmount(amount)
                   /\ action = "Withdraw" =>
                        ~InsufficientFunds(amount, member.savings_balance)
       IN /\ Begin(goes)
          /\ pc' = [pc EXCEPT ![s] =
                      IF ~goes THEN "idle"
                      ELSE IF action = "Deposit" THEN "dep_write" ELSE "wd_write"]
          /\ local' = [local EXCEPT ![s] =
                      IF ~goes THEN NoLocal
                      ELSE [member |-> user_email[s],
                            balance |-> member.savings_balance,
                            amount |-> amount, app |-> 0]]
    /\ page' = [page EXCEPT ![s] = SidebarPage(s)]
    /\ UNCHANGED <<store, user_email>>

\* the update built and never executed
DepositWriteNotExecuted(s) ==
    /\ pc[s] = "dep_write"
    /\ pc' = [pc EXCEPT ![s] = "dep_log"]
    /\ UNCHANGED <<store, session, local, runs>>

\* lines 161-162
DepositWrite(s) ==
    /\ pc[s] = "dep_write"
    /\ members' = [members EXCEPT ![local[s].member].savings_balance =
                     DepositBalance(local[s].balance, local[s].amount)]
    /\ pc' = [pc EXCEPT ![s] = "dep_log"]
    /\ UNCHANGED <<auth_users, savings_transactions, loan_applications,
                   loan_transactions, session, local, runs>>

\* lines 163-170
DepositLog(s) ==
    /\ pc[s] = "dep_log"
    /\ savings_transactions' = insert(savings_transactions,
          [member_id |-> local[s].member, transaction_type |-> "Deposit",
           amount |-> local[s].amount])
    /\ pc' = [pc EXCEPT ![s] = "idle"]
    /\ local' = [local EXCEPT ![s] = NoLocal]
    /\ UNCHANGED <<members, auth_users, loan_applications, loan_transactions,
                   session, runs>>

\* lines 175-176
WithdrawWrite(s) ==
    /\ pc[s] = "wd_write"
    /\ members' = [members EXCEPT ![local[s].member].savings_balance =
                     WithdrawBalance(local[s].balance, local[s].amount)]
    /\ pc' = [pc EXCEPT ![s] = "wd_log"]
    /\ UNCHANGED <<auth_users, savings_transactions, loan_applications,
                   loan_transactions, session, local, runs>>

\* lines 177-184
WithdrawLog(s) ==
    /\ pc[s] = "wd_log"
    /\ savings_transactions' = insert(savings_transactions,
          [member_id |-> local[s].member, transaction_type |-> "Withdraw",
           amount |-> local[s].amount])
    /\ pc' = [pc EXCEPT ![s] = "idle"]
    /\ local' = [local EXCEPT ![s] = NoLocal]
    /\ UNCHANGED <<members, auth_users, loan_applications, loan_transactions,
                   session, runs>>

\* loan_apply_form submitted (lines 138, 193-196)
SubmitLoan(s, loan_amount) ==
    /\ MemberPage(s)
    /\ Begin(ValidAmount(loan_amount))
    /\ pc' = [pc EXCEPT ![s] =
                IF ValidAmount(loan_amount) THEN "apply_insert" ELSE "idle"]
    /\ local' = [local EXCEPT ![s] =
                IF ValidAmount(loan_amount)
                THEN [member |-> user_email[s], balance |-> 0,
                      amount |-> loan_amount, app |-> 0]
                ELSE NoLocal]
    /\ page' = [page EXCEPT ![s] = SidebarPage(s)]
    /\ UNCHANGED <<store, user_email>>

\* lines 197-204
ApplyInsert(s) ==
    /\ pc[s] = "apply_insert"
    /\ loan_applications' = Append(loan_applications,
          [member_id |-> local[s].member, amount |-> local[s].amount,
           status |-> "Pending"])
    /\ local' = [local EXCEPT ![s].app = Len(loan_applications) + 1]
    /\ pc' = [pc EXCEPT ![s] = "apply_log"]
    /\ UNCHANGED <<members, auth_users, savings_transactions, loan_transactions,
                   session, runs>>

\* lines 205-213
ApplyLog(s) ==
    /\ pc[s] = "apply_log"
    /\ loan_transactions' = insert(loan_transactions,
          [member_id |-> local[s].member, loan_application_id |-> local[s].app,
           action |-> "Applied", amount |-> local[s].amount])
    /\ pc' = [pc EXCEPT ![s] = "idle"]
    /\ local' = [local EXCEPT ![s] = NoLocal]
    /\ UNCHANGED <<members, auth_users, savings_transactions, loan_applications,
                   session, runs>>

\* ------------------------------------------------------- admin dashboard
\* lines 252-254
AdminPage(s) ==
    /\ pc[s] = "idle"
    /\ Router(s) = "page_admin_dashboard"
    /\ is_admin(user_email[s])

\* A click on Approve #id or Reject #id (lines 263-281, 299): the run reads
\* the applications and renders the two buttons only for a row it read as
\* Pending; the click is taken against that read.
ClickLoan(s, id, button) ==
    /\ AdminPage(s)
    /\ id \in DOMAIN loan_applications
    /\ loan_applications[id].status = "Pending"
    /\ Begin(TRUE)
    /\ pc' = [pc EXCEPT ![s] =
                IF button = "Approve" THEN "apr_status" ELSE "rej_status"]
    /\ local' = [local EXCEPT ![s] =
                [member |-> loan_applications[id].member_id, balance |-> 0,
                 amount |-> loan_applications[id].amount, app |-> id]]
    /\ page' = [page EXCEPT ![s] = SidebarPage(s)]
    /\ UNCHANGED <<store, user_email>>

\* line 283
ApproveStatus(s) ==
    /\ pc[s] = "apr_status"
    /\ loan_applications' =
          [loan_applications EXCEPT ![local[s].app].status = "Approved"]
    /\ pc' = [pc EXCEPT ![s] = "apr_read"]
    /\ UNCHANGED <<members, auth_users, savings_transactions, loan_transactions,
                   session, local, runs>>

\* line 285
ApproveRead(s) ==
    /\ pc[s] = "apr_read"
    /\ local' = [local EXCEPT ![s].balance = members[local[s].member].loan_balance]
    /\ pc' = [pc EXCEPT ![s] = "apr_write"]
    /\ UNCHANGED <<store, session, runs>>

\* lines 286-287
ApproveWrite(s) ==
    /\ pc[s] = "apr_write"
    /\ members' = [members EXCEPT ![local[s].member].loan_balance =
                     ApprovedLoanBalance(local[s].balance, local[s].amount)]
    /\ pc' = [pc EXCEPT ![s] = "apr_log"]
    /\ UNCHANGED <<auth_users, savings_transactions, loan_applications,
                   loan_transactions, session, local, runs>>

\* lines 289-297
ApproveLog(s) ==
    /\ pc[s] = "apr_log"
    /\ loan_transactions' = insert(loan_transactions,
          [member_id |-> local[s].member, loan_application_id |-> local[s].app,
           action |-> "Approved", amount |-> local[s].amount])
    /\ pc' = [pc EXCEPT ![s] = "idle"]
    /\ local' = [local EXCEPT ![s] = NoLocal]
    /\ UNCHANGED <<members, auth_users, savings_transactions, loan_applications,
                   session, runs>>

\* line 300
RejectStatus(s) ==
    /\ pc[s] = "rej_status"
    /\ loan_applications' =
          [loan_applications EXCEPT ![local[s].app].status = "Rejected"]
    /\ pc' = [pc EXCEPT ![s] = "rej_log"]
    /\ UNCHANGED <<members, auth_users, savings_transactions, loan_transactions,
                   session, local, runs>>

\* lines 301-309
RejectLog(s) ==
    /\ pc[s] = "rej_log"
    /\ loan_transactions' = insert(loan_transactions,
          [member_id |-> local[s].member, loan_application_id |-> local[s].app,
           action |-> "Rejected", amount |-> local[s].amount])
    /\ pc' = [pc EXCEPT ![s] = "idle"]
    /\ local' = [local EXCEPT ![s] = NoLocal]
    /\ UNCHANGED <<members, auth_users, savings_transactions, loan_applications,
                   session, runs>>

\* A store call raises (no try/except in the page functions, no retry, no
\* rollback) or the run is interrupted: the run ends where it is.
Abort(s) ==
    /\ pc[s] # "idle"
    /\ pc' = [pc EXCEPT ![s] = "idle"]
    /\ local' = [local EXCEPT ![s] = NoLocal]
    /\ UNCHANGED <<store, session, runs>>

\* one store call of a run that is under way
Step(s) ==
    \/ DepositWrite(s)
    \/ DepositLog(s)
    \/ WithdrawWrite(s)
    \/ WithdrawLog(s)
    \/ ApplyInsert(s)
    \/ ApplyLog(s)
    \/ ApproveStatus(s)
    \/ ApproveRead(s)
    \/ ApproveWrite(s)
    \/ ApproveLog(s)
    \/ RejectStatus(s)
    \/ RejectLog(s)

\* one user interaction, starting a run
Interact(s) ==
    \/ \E email \in Emails, insert_ok \in BOOLEAN : signup(s, email, insert_ok)
    \/ \E email \in Emails : login(s, email)
    \/ logout(s)
    \/ \E choice \in {"Login", "Register", "Member", "Admin"} : Navigate(s, choice)
    \/ \E action \in {"Deposit", "Withdraw"}, amount \in Amounts :
          SubmitSavings(s, action, amount)
    \/ \E loan_amount \in LoanAmounts : SubmitLoan(s, loan_amount)
    \/ \E id \in DOMAIN loan_applications, button \in {"Approve", "Reject"} :
          ClickLoan(s, id, button)

\* Sessions run concurrently: any session takes the next step.
Next == \E s \in Sessions : Interact(s) \/ Step(s) \/ Abort(s)

Spec == Init /\ [][Next]_vars

\* Serial execution: a run is started, and its store calls are made, only
\* while no other session's run is under way, and no store call fails.
Alone(s) == \A t \in Sessions \ {s} : pc[t] = "idle"

SerialInteract(s) == Alone(s) /\ Interact(s)

SerialStep(s) == Alone(s) /\ Step(s)

SerialNext == \E s \in Sessions : SerialInteract(s) \/ SerialStep(s)

SerialSpec == Init /\ [][SerialNext]_vars

\* ================================================================ claims
AllIdle == \A s \in Sessions : pc[s] = "idle"

AdminPcs == {"apr_status", "apr_read", "apr_write", "apr_log",
             "rej_status", "rej_log"}

RECURSIVE SumRows(_, _)
SumRows(table, rows) ==
    IF rows = {} THEN 0
    ELSE LET r == CHOOSE x \in rows : TRUE
         IN r.amount * CopiesIn(r, table) + SumRows(table, rows \ {r})

\* the total of a member's savings records of one type
SavingsTotal(m, type) ==
    SumRows(savings_transactions,
            {r \in BagToSet(savings_transactions) :
                r.member_id = m /\ r.transaction_type = type})

\* the total of a member's loan records of one action
LoanTotal(m, action) ==
    SumRows(loan_transactions,
            {r \in BagToSet(loan_transactions) :
                r.member_id = m /\ r.action = action})

\* the number of loan records of one action for one application
LoanRecords(id, action) ==
    BagCardinality([r \in {x \in BagToSet(loan_transactions) :
                             x.loan_application_id = id /\ x.action = action}
                    |-> CopiesIn(r, loan_transactions)])

RECURSIVE AppsTotal(_, _, _)
\* the total of the first n applications that are m's and have a status in st
AppsTotal(n, m, st) ==
    IF n = 0 THEN 0
    ELSE (IF loan_applications[n].member_id = m /\ loan_applications[n].status \in st
          THEN loan_applications[n].amount ELSE 0) + AppsTotal(n - 1, m, st)

\* ---- C1
\* C1: no member's savings_balance or loan_balance is ever negative, in any
\* state reachable by deposits, withdrawals, applications, approvals and
\* rejections of two sessions whose store calls interleave and may fail.
C1_BalancesNonNegative ==
    \A e \in Emails :
        /\ members[e].savings_balance >= 0
        /\ members[e].loan_balance >= 0

\* two sessions have both written a withdrawal of the same account, each
\* checked against the same read, that together exceed that read
C1_Witness ==
    \E s \in Sessions, t \in Sessions :
        /\ s # t
        /\ pc[s] = "wd_log" /\ pc[t] = "wd_log"
        /\ local[s].member = local[t].member
        /\ local[s].balance = local[t].balance
        /\ local[s].amount + local[t].amount > local[s].balance
        /\ members[local[s].member].savings_balance >= 0

\* ---- C2
\* C2: a withdrawal goes through iff its amount is at most the savings_balance
\* at the check; when it does, the stored savings_balance decreases by exactly
\* the amount and one Withdraw record of that amount is appended; when it does
\* not, balances and the savings log are unchanged.
C2_WithdrawExact ==
    [][\A s \in Sessions :
        /\ (pc[s] = "wd_write" /\ pc'[s] = "wd_log") =>
              /\ local[s].amount <= members[local[s].member].savings_balance
              /\ members'[local[s].member].savings_balance =
                    members[local[s].member].savings_balance - local[s].amount
        /\ (pc[s] = "wd_log" /\ pc'[s] = "idle"
                /\ savings_transactions' # savings_transactions) =>
              savings_transactions' = savings_transactions (+) SetToBag({
                 [member_id |-> local[s].member, transaction_type |-> "Withdraw",
                  amount |-> local[s].amount]})
        /\ (\A t \in Sessions : pc'[t] = "idle" /\ pc[t] = "idle") =>
              /\ savings_transactions' = savings_transactions
              /\ \A e \in Emails : members[e] # NoRow => members'[e] = members[e]
      ]_vars

\* ---- C3
\* C3: a deposit of amount > 0 increases the stored savings_balance by exactly
\* the amount, relative to the stored value right before the balance write,
\* appends one Deposit record of that amount and leaves loan_balance, the
\* applications and the loan records alone; a deposit of amount <= 0 writes
\* nothing.
C3_DepositExact ==
    [][\A s \in Sessions :
        /\ (pc[s] = "dep_write" /\ pc'[s] = "dep_log") =>
              /\ members'[local[s].member].savings_balance =
                    members[local[s].member].savings_balance + local[s].amount
              /\ members'[local[s].member].loan_balance =
                    members[local[s].member].loan_balance
              /\ UNCHANGED <<loan_applications, loan_transactions>>
        /\ (pc[s] = "dep_log" /\ pc'[s] = "idle"
                /\ savings_transactions' # savings_transactions) =>
              /\ savings_transactions' = savings_transactions (+) SetToBag({
                   [member_id |-> local[s].member, transaction_type |-> "Deposit",
                    amount |-> local[s].amount]})
              /\ UNCHANGED <<members, loan_applications, loan_transactions>>
        /\ pc'[s] \in {"dep_write", "dep_log"} => local'[s].amount > 0
      ]_vars

\* ---- C4
\* C4: an application is credited to its member's loan_balance exactly once,
\* however many times Approve is invoked on it: at most one Approved record
\* exists for it, and a member's loan_balance never exceeds the total of the
\* member's applications.
C4_ApprovedOnce ==
    /\ \A id \in DOMAIN loan_applications : LoanRecords(id, "Approved") <= 1
    /\ \A e \in Emails :
          members[e].loan_balance
             <= AppsTotal(Len(loan_applications), e, {"Pending", "Approved", "Rejected"})

\* ---- C5
\* C5: the stored status of an application changes only from Pending: there is
\* no step Approved -> Rejected, Rejected -> Approved or back to Pending.
C5_StatusOnlyFromPending ==
    [][\A id \in DOMAIN loan_applications :
          loan_applications'[id].status # loan_applications[id].status =>
              loan_applications[id].status = "Pending"]_vars

\* ---- C6
\* C6: a Reject changes no balance, and an application that ends Rejected has
\* contributed nothing to its member's loan_balance: a member none of whose
\* applications is Approved has loan_balance 0.
C6_RejectedContributesNothing ==
    \A e \in Emails :
        AppsTotal(Len(loan_applications), e, {"Approved"}) = 0
            => members[e].loan_balance = 0

\* ---- C7
\* C7: an application's status and a member's loan_balance change only in a
\* step of an approve or reject run of a session whose user_email has a row
\* with role admin; a session of a role=member account is never routed to the
\* admin dashboard nor inside an approve or reject run; a row is created with
\* role member and no step changes the role of a row.
C7_RoleAuthorization ==
    /\ [](\A s \in Sessions :
            (user_email[s] \in Emails /\ members[user_email[s]].role # "admin") =>
                /\ pc[s] \notin AdminPcs
                /\ Router(s) # "page_admin_dashboard")
    /\ [][( \/ \E id \in DOMAIN loan_applications :
                 loan_applications'[id].status # loan_applications[id].status
            \/ \E e \in Emails :
                 members'[e].loan_balance # members[e].loan_balance )
           => \E s \in Sessions :
                 /\ pc[s] \in AdminPcs
                 /\ pc'[s] # pc[s]
                 /\ user_email[s] \in Emails
                 /\ members[user_email[s]].role = "admin"]_vars
    /\ [][\A e \in Emails :
             /\ members[e] # NoRow => members'[e].role = members[e].role
             /\ (members[e] = NoRow /\ members'[e] # NoRow) =>
                    members'[e].role = "member"]_vars

\* a member is logged in on the member dashboard while an application of
\* that member has been approved, and credited, by an admin's session
C7_Witness ==
    \E s \in Sessions, id \in DOMAIN loan_applications :
        /\ user_email[s] = MemberEmail
        /\ members[MemberEmail].role = "member"
        /\ Router(s) = "page_member_dashboard"
        /\ loan_applications[id].member_id = MemberEmail
        /\ loan_applications[id].status = "Approved"
        /\ members[MemberEmail].loan_balance = loan_applications[id].amount

\* ---- C8
\* C8: the withdrawal check is against the balance the run read, and the
\* write stores that read minus the amount, whatever the store holds by then;
\* so two sessions can both withdraw against one read (the witness).
C8_WithdrawUsesRead ==
    /\ [](\A s \in Sessions : pc[s] \in {"wd_write", "wd_log"} =>
             (local[s].amount > 0 /\ local[s].amount <= local[s].balance))
    /\ [][\A s \in Sessions : (pc[s] = "wd_write" /\ pc'[s] = "wd_log") =>
             members'[local[s].member].savings_balance =
                 local[s].balance - local[s].amount]_vars

\* every run so far was a savings run of one member that wrote its balance
\* and its record, and the member's logged withdrawals exceed its logged
\* deposits: in no serial order would the last withdrawal have passed
C8_DoubleSpend ==
    \E e \in Emails :
        /\ AllIdle
        /\ BagCardinality(savings_transactions) = runs
        /\ \A r \in BagToSet(savings_transactions) : r.member_id = e
        /\ SavingsTotal(e, "Deposit") > 0
        /\ SavingsTotal(e, "Withdraw") > SavingsTotal(e, "Deposit")

\* ---- C9
\* C9: when runs execute one at a time to completion and no store call fails,
\* after every completed run each member's savings_balance is its Deposit
\* total minus its Withdraw total, and its loan_balance is the total of its
\* Approved loan records, which is the total of its Approved applications.
C9_LedgerConsistent ==
    AllIdle =>
        \A e \in Emails :
            /\ members[e].savings_balance =
                   SavingsTotal(e, "Deposit") - SavingsTotal(e, "Withdraw")
            /\ members[e].loan_balance = LoanTotal(e, "Approved")
            /\ LoanTotal(e, "Approved") =
                   AppsTotal(Len(loan_applications), e, {"Approved"})

C9_Witness ==
    /\ AllIdle
    /\ \E e \in Emails :
          /\ SavingsTotal(e, "Deposit") > 0
          /\ members[e].savings_balance > 0
          /\ LoanTotal(e, "Approved") > 0
          /\ members[e].loan_balance > 0

\* ---- C10
\* C10: a run inserts its Savings record only after its own balance update
\* was applied, and its Approved record only after its status update and then
\* its loan_balance update were applied; a run that ends early undoes
\* nothing.  So a record implies the writes, and not the other way round.
C10_WriteOrder ==
    [][\A s \in Sessions :
        /\ (pc'[s] = "dep_log" /\ pc[s] # "dep_log") =>
              /\ pc[s] = "dep_write"
              /\ members'[local[s].member].savings_balance =
                    local[s].balance + local[s].amount
        /\ (pc'[s] = "wd_log" /\ pc[s] # "wd_log") =>
              /\ pc[s] = "wd_write"
              /\ members'[local[s].member].savings_balance =
                    local[s].balance - local[s].amount
        /\ (pc'[s] = "apr_read" /\ pc[s] # "apr_read") =>
              /\ pc[s] = "apr_status"
              /\ loan_applications'[local[s].app].status = "Approved"
        /\ (pc'[s] = "apr_write" /\ pc[s] # "apr_write") => pc[s] = "apr_read"
        /\ (pc'[s] = "apr_log" /\ pc[s] # "apr_log") =>
              /\ pc[s] = "apr_write"
              /\ members'[local[s].member].loan_balance =
                    local[s].balance + local[s].amount
        /\ (pc[s] # pc'[s] /\ savings_transactions' # savings_transactions) =>
              pc[s] \in {"dep_log", "wd_log"}
        /\ (pc[s] # pc'[s] /\ loan_transactions' # loan_transactions) =>
              \/ pc[s] = "apply_log"
              \/ pc[s] = "rej_log"
              \/ /\ pc[s] = "apr_log"
                 /\ loan_transactions' = loan_transactions (+) SetToBag({
                      [member_id |-> local[s].member,
                       loan_application_id |-> local[s].app,
                       action |-> "Approved", amount |-> local[s].amount]})
        /\ (pc[s] # "idle" /\ pc'[s] = "idle"
                /\ pc[s] \notin {"dep_log", "wd_log", "apply_log", "apr_log", "rej_log"})
              => UNCHANGED store
      ]_vars

\* a balance and a status written with no record: every run has ended, a
\* member has savings and an Approved application, and both logs lack them
C10_Witness ==
    /\ AllIdle
    /\ \E e \in Emails :
          /\ members[e].savings_balance > 0
          /\ SavingsTotal(e, "Deposit") = 0
    /\ \E id \in DOMAIN loan_applications :
          /\ loan_applications[id].status = "Approved"
          /\ LoanRecords(id, "Approved") = 0

====
